---- MODULE Spec2Model ----
(***************************************************************************)
(* Model of ve/forms.py: the Venezuelan form fields VEZipCodeField,        *)
(* VEDNIField, VERIFField, VEPhoneField and the region / state /           *)
(* municipality / parish choice fields.                                    *)
(*                                                                         *)
(* A text value is a sequence of one-character strings.  Every clean()     *)
(* call is independent of the others, so a state of the model records the  *)
(* last call: which operation ran, on which field configuration and input, *)
(* and what it returned or raised.                                         *)
(***************************************************************************)
EXTENDS Integers, Sequences, FiniteSets, TLC

\* ------------------------------------------------------------------------
\* Bounds of the explored inputs
\* ------------------------------------------------------------------------
MaxZipLen == 7
MaxDNIDigits == 9
MaxPhoneLeft == 5
MaxPhoneRight == 8
FreeDigits == 1
MaxCodeLen == 2

\* ------------------------------------------------------------------------
\* Text helpers (Python str / unicode methods used by the source)
\* ------------------------------------------------------------------------
DigitSeq == <<"0", "1", "2", "3", "4", "5", "6", "7", "8", "9">>

Digits == {DigitSeq[i] : i \in 1..10}

\* int(c) for a one-character decimal digit
DigitVal(c) == (CHOOSE i \in 1..10 : DigitSeq[i] = c) - 1

\* str(n) for a small non-negative integer
Str(n) == IF n < 10 THEN <<DigitSeq[n + 1]>>
          ELSE <<DigitSeq[(n \div 10) + 1], DigitSeq[(n % 10) + 1]>>

\* value.isdigit(): non-empty and every character a digit
isdigit(s) == Len(s) > 0 /\ \A i \in 1..Len(s) : s[i] \in Digits

\* value.replace(c, '') and re.sub("[-\.]", "", value): drop the characters
Remove(s, chars) == SelectSeq(s, LAMBDA c : c \notin chars)

\* rif.replace(old, new): every occurrence of the character is replaced
Replace(s, old, new) == [i \in 1..Len(s) |-> IF s[i] = old THEN new ELSE s[i]]

\* c.lower() on the letters that occur in the inputs
lower(c) == CASE c = "V" -> "v"
              [] c = "E" -> "e"
              [] c = "J" -> "j"
              [] c = "P" -> "p"
              [] c = "G" -> "g"
              [] OTHER -> c

Whitespace == {" ", "\n"}

RECURSIVE LStrip(_)
LStrip(s) == IF Len(s) > 0 /\ s[1] \in Whitespace THEN LStrip(Tail(s)) ELSE s

RECURSIVE RStrip(_)
RStrip(s) == IF Len(s) > 0 /\ s[Len(s)] \in Whitespace
             THEN RStrip(SubSeq(s, 1, Len(s) - 1)) ELSE s

\* int(value) returns (TRUE) or raises ValueError (FALSE): surrounding
\* whitespace and one leading sign are accepted around the digits
IntParses(s) ==
    LET t == RStrip(LStrip(s))
        u == IF Len(t) > 0 /\ t[1] \in {"+", "-"} THEN Tail(t) ELSE t
    IN  isdigit(u)

\* '$' of a Python regular expression: the end of the text, or just before
\* a final newline.  True when the text ends right after position n.
AtEnd(s, n) == Len(s) = n \/ (Len(s) = n + 1 /\ s[n + 1] = "\n")

AllDigitsIn(s, a, b) == Len(s) >= b /\ \A i \in a..b : s[i] \in Digits

\* ------------------------------------------------------------------------
\* Results of a call
\* ------------------------------------------------------------------------
None == <<"<None>">>

\* A call returns a value (kind "ok") or raises; cd is the second component
\* of the pair returned by __canon and None everywhere else
Ok(v) == [kind |-> "ok", value |-> v, cd |-> None]

Raise(k) == [kind |-> k, value |-> None, cd |-> None]

\* django.forms.fields.EMPTY_VALUES restricted to text values
EMPTY_VALUES == {<< >>}

\* ------------------------------------------------------------------------
\* The framework base classes, as configured by the __init__ of each field
\* ------------------------------------------------------------------------
\* Field.clean: a required field rejects an empty value
FieldClean(req, value) ==
    IF req /\ value \in EMPTY_VALUES THEN Raise("Required") ELSE Ok(value)

\* CharField.clean with max_length / min_length
CharFieldClean(req, value, maxLen, minLen) ==
    LET r == FieldClean(req, value)
    IN  IF r.kind # "ok" THEN r
        ELSE IF value \in EMPTY_VALUES THEN Ok(<< >>)
        ELSE IF Len(value) > maxLen THEN Raise("WrongLength")
        ELSE IF Len(value) < minLen THEN Raise("WrongLength")
        ELSE Ok(value)

\* RegexField.clean: CharField.clean, then the pattern on a non-empty value
RegexFieldClean(req, value, maxLen, minLen, matches) ==
    LET r == CharFieldClean(req, value, maxLen, minLen)
    IN  IF r.kind # "ok" THEN r
        ELSE IF r.value = << >> THEN r
        ELSE IF ~matches THEN Raise("InvalidFormat")
        ELSE r

\* ------------------------------------------------------------------------
\* VEZipCodeField
\* ------------------------------------------------------------------------
ZipMaxLength == 4

ZipMinLength == 4

\* r'^\d{4}$'
ZipRegex(s) == AllDigitsIn(s, 1, 4) /\ AtEnd(s, 4)

VEZipCodeField_clean(req, v) ==
    LET r == RegexFieldClean(req, v, ZipMaxLength, ZipMinLength, ZipRegex(v))
        v1 == r.value
        v2 == IF ~isdigit(v1) THEN Remove(v1, {"."}) ELSE v1
    IN  IF r.kind # "ok" THEN r
        ELSE IF v1 \in EMPTY_VALUES THEN Ok(<< >>)
        ELSE IF ~isdigit(v2) THEN Raise("InvalidFormat")
        ELSE IF Len(v2) \notin {4} THEN Raise("WrongLength")
        ELSE Ok(None)

\* ------------------------------------------------------------------------
\* VEDNIField
\* ------------------------------------------------------------------------
DNIMaxLength == 10

DNIMinLength == 7

VEDNIField_clean(req, v) ==
    LET r == CharFieldClean(req, v, DNIMaxLength, DNIMinLength)
        v1 == r.value
        v2 == IF ~isdigit(v1) THEN Remove(v1, {"-", "."}) ELSE v1
    IN  IF r.kind # "ok" THEN r
        ELSE IF v1 \in EMPTY_VALUES THEN Ok(<< >>)
        ELSE IF ~IntParses(v2) THEN Raise("InvalidFormat")
        ELSE IF Len(v2) \notin {7, 8} THEN Raise("WrongLength")
        ELSE Ok(v2)

\* ------------------------------------------------------------------------
\* VEPhoneField
\* ------------------------------------------------------------------------
PhoneMaxLength == 12

PhoneMinLength == 12

\* the pattern with the separator left unescaped: r'^\d{4}.\d{7}$'
PhoneRegex_any_separator(s) ==
    /\ AllDigitsIn(s, 1, 4)
    /\ Len(s) >= 5 /\ s[5] # "\n"
    /\ AllDigitsIn(s, 6, 12)
    /\ AtEnd(s, 12)

\* r'^\d{4}-\d{7}$'
PhoneRegex(s) ==
    /\ AllDigitsIn(s, 1, 4)
    /\ Len(s) >= 5 /\ s[5] = "-"
    /\ AllDigitsIn(s, 6, 12)
    /\ AtEnd(s, 12)

VEPhoneField_clean(req, v) ==
    LET r == RegexFieldClean(req, v, PhoneMaxLength, PhoneMinLength,
                             PhoneRegex(v))
    IN  IF r.kind # "ok" THEN r
        ELSE IF r.value \in EMPTY_VALUES THEN Ok(<< >>)
        ELSE IF Len(r.value) \notin {12} THEN Raise("WrongLength")
        ELSE Ok(None)

\* ------------------------------------------------------------------------
\* VERIFField
\* ------------------------------------------------------------------------
\* Names bound in the global namespace of the module forms.py
ModuleGlobals ==
    {"re", "ValidationError", "Select", "CharField", "RegexField", "Field",
     "EMPTY_VALUES", "smart_unicode", "_",
     "VEZipCodeField", "VEDNIField", "VERIFField", "VEPhoneField",
     "VERegionsSelect", "VERegionChoiceField", "VEStateSelect",
     "VEStateChoiceField", "VESMunicipalitySelect",
     "VEMunicipalityChoiceField", "VEParishesSelect",
     "VEParishesChoiceField"}

\* Keyword parameters RegexField.__init__ and its base classes accept
FieldInitKwargs ==
    {"max_length", "min_length", "error_message", "required", "widget",
     "label", "initial", "help_text", "error_messages"}

rif_first_char == [v |-> "1", e |-> "2", j |-> "3", p |-> "4", g |-> "5"]

\* the weights with the last one mistyped
multipliers_mistyped == <<4, 3, 2, 7, 6, 5, 4, 3, 1>>

multipliers == <<4, 3, 2, 7, 6, 5, 4, 3, 2>>

\* r'^([jJ|vV|eE|gG|pP])-?\d{8}-?\d$'
RIFRegex(s) ==
    LET a == IF Len(s) >= 2 /\ s[2] = "-" THEN 3 ELSE 2
        b == a + 8
        c == IF Len(s) >= b /\ s[b] = "-" THEN b + 1 ELSE b
    IN  /\ Len(s) >= 1
        /\ s[1] \in {"j", "J", "|", "v", "V", "e", "E", "g", "G", "p", "P"}
        /\ AllDigitsIn(s, a, a + 7)
        /\ Len(s) >= c /\ s[c] \in Digits
        /\ AtEnd(s, c)

\* VERIFField.__init__: super(RIFField, self).__init__(..., max_lenght=12,
\* min_lenght=10): the name RIFField is looked up first
VERIFField_init ==
    IF "RIFField" \notin ModuleGlobals THEN Raise("NameError")
    ELSE IF ~({"max_lenght", "min_lenght"} \subseteq FieldInitKwargs)
         THEN Raise("TypeError")
    ELSE Ok(None)

\* VERIFField.__canon
VERIFField_canon(rif0) ==
    LET rif == Remove(rif0, {"-"})
        r2 == Replace(rif, rif[1], rif_first_char[lower(rif[1])])
    IN  IF Len(rif) = 0 THEN Raise("IndexError")
        ELSE IF lower(rif[1]) \in DOMAIN rif_first_char
        THEN [kind |-> "ok",
              value |-> SubSeq(r2, 1, Len(r2) - 1),
              cd |-> <<r2[Len(r2)]>>]
        ELSE Raise("InvalidFormat")

\* sum([m * int(rif[idx]) for idx, m in enumerate(multipliers)])
RECURSIVE WeightedSum(_, _)
WeightedSum(rif, idx) ==
    IF idx > Len(multipliers) THEN 0
    ELSE multipliers[idx] * DigitVal(rif[idx]) + WeightedSum(rif, idx + 1)

\* VERIFField.__calc_cd
VERIFField_calc_cd(rif) ==
    LET bad == {i \in 1..Len(multipliers) : i > Len(rif) \/ rif[i] \notin Digits}
        first == CHOOSE i \in bad : \A j \in bad : i <= j
        tmp == WeightedSum(rif, 1)
    IN  IF bad # {}
        THEN (IF first > Len(rif) THEN Raise("IndexError")
              ELSE Raise("ValueError"))
        ELSE Ok(Str(11 - (tmp % 11)))

\* the format string written with separators: u'%s-%s-%s'
VERIFField_format_hyphens(rif, check_digit) ==
    LET cd == IF check_digit = None THEN <<rif[Len(rif)]>> ELSE check_digit
        r == IF check_digit = None THEN SubSeq(rif, 1, Len(rif) - 1) ELSE rif
    IN  SubSeq(r, 1, 2) \o <<"-">> \o SubSeq(r, 3, Len(r)) \o <<"-">> \o cd

\* VERIFField.__format; check_digit is a one-character text or None
VERIFField_format(rif, check_digit) ==
    LET cd == IF check_digit = None THEN <<rif[Len(rif)]>> ELSE check_digit
        r == IF check_digit = None THEN SubSeq(rif, 1, Len(rif) - 1) ELSE rif
    IN  SubSeq(r, 1, 2) \o SubSeq(r, 3, Len(r)) \o cd

\* VERIFField.clean after the call of the base class: lines 118-123
VERIFField_clean_body(value) ==
    LET c == VERIFField_canon(value)
        computed == VERIFField_calc_cd(c.value)
    IN  IF value \in EMPTY_VALUES THEN Ok(<< >>)
        ELSE IF c.kind # "ok" THEN Raise(c.kind)
        ELSE IF computed.kind # "ok" THEN computed
        ELSE IF computed.value # c.cd THEN Raise("ChecksumError")
        ELSE Ok(VERIFField_format(c.value, c.cd))

\* VERIFField.clean: super(RIFField, self).clean(value) looks the name
\* RIFField up before anything else runs
VERIFField_clean(req, value) ==
    LET r == RegexFieldClean(req, value, Len(value), 0, RIFRegex(value))
    IN  IF "RIFField" \notin ModuleGlobals THEN Raise("NameError")
        ELSE IF r.kind # "ok" THEN r
        ELSE VERIFField_clean_body(r.value)

\* ------------------------------------------------------------------------
\* Choice fields
\* ------------------------------------------------------------------------
\* Keys of the tables imported from ve_regions / ve_states
REGION_CHOICES == {<<"a">>, <<"a", "b">>}

STATE_CHOICES == {<<"b">>, <<"b", "a">>}

\* Keys of the municipality and parish tables the selectors are to expose
MUNICIPALITY_CHOICES == {<<"a">>, <<"b", "b">>}

PARISH_CHOICES == {<<"b">>, <<"a", "a">>}

ChoiceFieldClean(req, value, choices) ==
    LET r == FieldClean(req, value)
    IN  IF r.kind # "ok" THEN r
        ELSE IF value \in EMPTY_VALUES THEN Ok(<< >>)
        ELSE IF value \notin choices THEN Raise("InvalidChoice")
        ELSE Ok(value)

VERegionChoiceField_clean(req, value) ==
    ChoiceFieldClean(req, value, REGION_CHOICES)

VEStateChoiceField_clean(req, value) ==
    ChoiceFieldClean(req, value, STATE_CHOICES)

\* class VEMunicipalityChoiceField(Field): pass
VEMunicipalityChoiceField_clean(req, value) == FieldClean(req, value)

\* class VEParishesChoiceField(Field): pass
VEParishesChoiceField_clean(req, value) == FieldClean(req, value)

\* ------------------------------------------------------------------------
\* Submitted texts
\* ------------------------------------------------------------------------
\* All texts over an alphabet up to a length
TextsUpTo(alphabet, n) == UNION {[1..k -> alphabet] : k \in 0..n}

\* "1234567890123..." cut to n characters
DigitRun(n) == [i \in 1..n |-> DigitSeq[(i % 10) + 1]]

\* core with sep inserted after every position in mask
RECURSIVE Punctuate(_, _, _, _)
Punctuate(core, mask, sep, i) ==
    IF i > Len(core) THEN << >>
    ELSE <<core[i]>> \o (IF i \in mask THEN <<sep>> ELSE << >>)
                     \o Punctuate(core, mask, sep, i + 1)

\* core with the character at position k replaced by a letter (k = 0: none)
Spoil(core, k) == [i \in 1..Len(core) |-> IF i = k THEN "a" ELSE core[i]]

ZipInputs == TextsUpTo({"0", "1", ".", "a"}, MaxZipLen)

DNIInputs ==
    UNION {UNION {{pre \o Punctuate(DigitRun(n), mask, sep, 1) :
                       pre \in {<< >>, <<"+">>, <<" ">>, <<"a">>},
                       sep \in {".", "-"}} :
                  mask \in SUBSET (1..n)} :
           n \in 0..MaxDNIDigits}

\* "0412222..." cut to n characters
AreaRun(n) == [i \in 1..n |-> CASE i = 1 -> "0" [] i = 2 -> "4"
                                [] i = 3 -> "1" [] OTHER -> "2"]

PhoneInputs ==
    UNION {UNION {{Spoil(AreaRun(n), j) \o sep \o Spoil(DigitRun(m), k) :
                       j \in 0..n, k \in 0..m,
                       sep \in {<< >>, <<"-">>, <<"0">>, <<"-", "-">>}} :
                  m \in 0..MaxPhoneRight} :
           n \in 0..MaxPhoneLeft}

\* Eight identification digits: "1234567..." with the last FreeDigits free
WellFormedBodies ==
    {DigitRun(8 - FreeDigits) \o f : f \in [1..FreeDigits -> Digits]}

RIFBodies ==
    WellFormedBodies \cup
    {DigitRun(7), DigitRun(9), Spoil(DigitRun(8), 5),
     <<"v">> \o Tail(DigitRun(8))}

RIFInputs ==
    {<< >>, <<" ">>, <<" ", " ">>, <<"-">>} \cup
    {pre \o s1 \o body \o s2 \o cd :
        pre \in {<< >>, <<"v">>, <<"V">>, <<"e">>, <<"j">>, <<"p">>, <<"g">>,
                 <<"G">>, <<"x">>, <<"|">>, <<"1">>},
        s1 \in {<< >>, <<"-">>},
        body \in RIFBodies,
        s2 \in {<< >>, <<"-">>},
        cd \in {<< >>, <<"a">>} \cup {<<d>> : d \in Digits}}

\* Nine-digit payloads: a category digit and eight identification digits
Payloads ==
    {<<c>> \o body : c \in {"1", "2", "3", "4", "5"}, body \in WellFormedBodies}

CheckDigits == {<<d>> : d \in Digits}

Codes == TextsUpTo({"a", "b"}, MaxCodeLen)

\* ------------------------------------------------------------------------
\* State: the last call
\* ------------------------------------------------------------------------
VARIABLES
    call,         \* the operation that ran last
    prev,         \* the operation whose result was handed to it, or "none"
    required,     \* the field's required flag, set at construction
    origin,       \* the text the first call of the chain was given
    value,        \* the (first) argument of the call
    check_digit,  \* the second argument of __format, else None
    result        \* what the call returned or raised

vars == <<call, prev, required, origin, value, check_digit, result>>

Init ==
    /\ call = "none"
    /\ prev = "none"
    /\ required = TRUE
    /\ origin = << >>
    /\ value = << >>
    /\ check_digit = None
    /\ result = Ok(None)

\* A call on a freshly built field with required = req; the calls share no
\* state, so each one starts from the state after construction
Submit(name, req, v, r) ==
    /\ call' = name
    /\ prev' = "none"
    /\ required' = req
    /\ origin' = v
    /\ value' = v
    /\ check_digit' = None
    /\ result' = r

CleanZipCode ==
    /\ call = "none"
    /\ \E req \in BOOLEAN, v \in ZipInputs :
           Submit("VEZipCodeField.clean", req, v, VEZipCodeField_clean(req, v))

CleanDNI ==
    /\ call = "none"
    /\ \E req \in BOOLEAN, v \in DNIInputs :
           Submit("VEDNIField.clean", req, v, VEDNIField_clean(req, v))

CleanPhone ==
    /\ call = "none"
    /\ \E req \in BOOLEAN, v \in PhoneInputs :
           Submit("VEPhoneField.clean", req, v, VEPhoneField_clean(req, v))

ConstructRIF ==
    /\ call = "none"
    /\ \E req \in BOOLEAN :
           Submit("VERIFField.__init__", req, << >>, VERIFField_init)

\* clean() of a VERIFField object (one made without its failing __init__)
CleanRIF ==
    /\ call = "none"
    /\ \E req \in BOOLEAN, v \in RIFInputs :
           Submit("VERIFField.clean", req, v, VERIFField_clean(req, v))

CleanRegion ==
    /\ call = "none"
    /\ \E req \in BOOLEAN, v \in Codes :
           Submit("VERegionChoiceField.clean", req, v,
                  VERegionChoiceField_clean(req, v))

CleanState ==
    /\ call = "none"
    /\ \E req \in BOOLEAN, v \in Codes :
           Submit("VEStateChoiceField.clean", req, v,
                  VEStateChoiceField_clean(req, v))

CleanMunicipality ==
    /\ call = "none"
    /\ \E req \in BOOLEAN, v \in Codes :
           Submit("VEMunicipalityChoiceField.clean", req, v,
                  VEMunicipalityChoiceField_clean(req, v))

CleanParish ==
    /\ call = "none"
    /\ \E req \in BOOLEAN, v \in Codes :
           Submit("VEParishesChoiceField.clean", req, v,
                  VEParishesChoiceField_clean(req, v))

\* The helper methods of VERIFField, called directly ...
Canon ==
    /\ call = "none"
    /\ \E v \in RIFInputs :
           Submit("__canon", FALSE, v, VERIFField_canon(v))

CalcCd ==
    /\ call = "none"
    /\ \E p \in Payloads :
           Submit("__calc_cd", FALSE, p, VERIFField_calc_cd(p))

Format ==
    /\ call = "none"
    /\ \E p \in Payloads, cd \in CheckDigits :
           /\ call' = "__format"
           /\ prev' = "none"
           /\ required' = FALSE
           /\ origin' = p
           /\ value' = p
           /\ check_digit' = cd
           /\ result' = Ok(VERIFField_format(p, cd))

\* ... and on each other's results.
\* value, cd = self.__canon(value); self.__calc_cd(value)
CalcCdOfCanon ==
    /\ call = "__canon" /\ prev = "none" /\ result.kind = "ok"
    /\ call' = "__calc_cd"
    /\ prev' = "__canon"
    /\ value' = result.value
    /\ check_digit' = result.cd
    /\ result' = VERIFField_calc_cd(result.value)
    /\ UNCHANGED <<required, origin>>

\* if self.__calc_cd(value) != cd: raise ...; return self.__format(value, cd)
FormatOfCalcCd ==
    /\ call = "__calc_cd" /\ prev = "__canon" /\ result.kind = "ok"
    /\ result.value = check_digit
    /\ call' = "__format"
    /\ prev' = "__calc_cd"
    /\ result' = Ok(VERIFField_format(value, check_digit))
    /\ UNCHANGED <<required, origin, value, check_digit>>

\* the Canonicalizer applied to the Formatter's output
CanonOfFormat ==
    /\ call = "__format" /\ check_digit # None
    /\ call' = "__canon"
    /\ prev' = "__format"
    /\ value' = result.value
    /\ check_digit' = None
    /\ result' = VERIFField_canon(result.value)
    /\ UNCHANGED <<required, origin>>

\* the Formatter applied to its own output, check_digit left at its default
FormatOfFormat ==
    /\ call = "__format" /\ check_digit # None
    /\ call' = "__format"
    /\ prev' = "__format"
    /\ value' = result.value
    /\ check_digit' = None
    /\ result' = Ok(VERIFField_format(result.value, None))
    /\ UNCHANGED <<required, origin>>

Next ==
    \/ CleanZipCode
    \/ CleanDNI
    \/ CleanPhone
    \/ ConstructRIF
    \/ CleanRIF
    \/ CleanRegion
    \/ CleanState
    \/ CleanMunicipality
    \/ CleanParish
    \/ Canon
    \/ CalcCd
    \/ Format
    \/ CalcCdOfCanon
    \/ FormatOfCalcCd
    \/ CanonOfFormat
    \/ FormatOfFormat

Spec == Init /\ [][Next]_vars

\* ------------------------------------------------------------------------
\* Properties
\* ------------------------------------------------------------------------
V_12345678_1 == <<"v", "-", "1", "2", "3", "4", "5", "6", "7", "8", "-", "1">>

V_12345678_9 == <<"v", "-", "1", "2", "3", "4", "5", "6", "7", "8", "-", "9">>

\* Letter, optional hyphens, 8 identification digits, 1 check digit
WellShapedRIF(v) ==
    LET t == Remove(v, {"-"})
    IN  /\ RIFRegex(v)
        /\ lower(v[1]) \in {"v", "e", "j", "p", "g"}
        /\ Len(t) = 10

\* After removing hyphens: first character not a category letter, or the
\* characters after it are not exactly 9 digits
BadShapeRIF(v) ==
    LET t == Remove(v, {"-"})
    IN  \/ Len(t) = 0
        \/ lower(t[1]) \notin {"v", "e", "j", "p", "g"}
        \/ ~(Len(t) = 10 /\ AllDigitsIn(t, 2, 10))

Blank(v) == \A i \in 1..Len(v) : v[i] = " "

\* C1: for every well-shaped non-empty RIF text, VERIFField.clean succeeds
\* iff the supplied check digit equals 11 - (S mod 11), S the weighted sum
\* of the 9 payload digits; on a match it returns payload + check digit, on
\* a mismatch it signals ChecksumError.
C1_CleanIffCheckDigitMatches ==
    (call = "VERIFField.clean" /\ WellShapedRIF(value)) =>
        LET c == VERIFField_canon(value)
            expected == Str(11 - (WeightedSum(c.value, 1) % 11))
        IN  IF c.cd = expected
            THEN result = Ok(c.value \o c.cd)
            ELSE result.kind = "ChecksumError"

C3_BadShapeIsInvalidFormat ==
    (call = "VERIFField.clean" /\ value # << >> /\ BadShapeRIF(value)) =>
        result.kind = "InvalidFormat"

\* C4: an empty or whitespace-only input makes the RIF validator succeed
\* with an empty result, without InvalidFormat or ChecksumError.
C4_BlankSucceedsEmpty ==
    (call = "VERIFField.clean" /\ Blank(value)) => result = Ok(<< >>)

\* C5: for every 9-digit payload, __calc_cd gives a single digit 0..9.
C5_CheckDigitIsOneDigit ==
    (call = "__calc_cd" /\ value \in Payloads) =>
        (result.kind = "ok" /\ result.value \in CheckDigits)

\* C6 (as stated): the Canonicalizer does not fail on the Formatter's
\* output, and formatting what it returns gives the same text again.
C6_CanonAcceptsFormatted ==
    (call = "__canon" /\ prev = "__format") =>
        /\ result.kind = "ok"
        /\ VERIFField_format(result.value, result.cd) = value

\* C6 (amended): the Canonicalizer rejects every output of the Formatter
\* with InvalidFormat (it starts with a category digit, not a letter); the
\* output is the payload followed by the check digit, and the Formatter
\* applied to it again, check digit left out, returns the same text.
C6_FormattedIsStable ==
    /\ (call = "__format" /\ prev = "none")
        => result = Ok(value \o check_digit)
    /\ (call = "__canon" /\ prev = "__format")
        => result.kind = "InvalidFormat"
    /\ (call = "__format" /\ prev = "__format")
        => result = Ok(value)

C6_Witness ==
    /\ call = "__format" /\ prev = "__format"
    /\ Len(value) = 10
    /\ result.kind = "ok"

\* C7: for every non-empty input, VEDNIField.clean succeeds iff the input
\* without hyphens and periods is all digits and 7 or 8 long; every other
\* input fails with InvalidFormat or WrongLength.
C7_DNIIffSevenOrEightDigits ==
    (call = "VEDNIField.clean" /\ value # << >>) =>
        LET t == Remove(value, {"-", "."})
        IN  IF isdigit(t) /\ Len(t) \in {7, 8}
            THEN result.kind = "ok"
            ELSE result.kind \in {"InvalidFormat", "WrongLength"}

\* C8: for every non-empty input, VEZipCodeField.clean succeeds iff the
\* input without periods is exactly 4 digits; every other input fails with
\* InvalidFormat or WrongLength.
C8_ZipIffFourDigits ==
    (call = "VEZipCodeField.clean" /\ value # << >>) =>
        LET t == Remove(value, {"."})
        IN  IF isdigit(t) /\ Len(t) = 4
            THEN result.kind = "ok"
            ELSE result.kind \in {"InvalidFormat", "WrongLength"}

\* 4 digits, a hyphen, 7 digits
IsPhoneText(s) ==
    /\ Len(s) = 12
    /\ \A i \in 1..12 : IF i = 5 THEN s[i] = "-" ELSE s[i] \in Digits

\* C9 (as stated): VEPhoneField.clean succeeds iff the input is 4 digits,
\* a hyphen, 7 digits; every failure is of kind WrongLength.
C9_PhoneFailsWithWrongLength ==
    (call = "VEPhoneField.clean" /\ value # << >>) =>
        IF IsPhoneText(value) THEN result.kind = "ok"
        ELSE result.kind = "WrongLength"

\* C9 (amended): VEPhoneField.clean succeeds iff the input is 4 digits, a
\* hyphen, 7 digits; an input that is not 12 characters long fails with
\* WrongLength, a 12-character input off the pattern with InvalidFormat.
C9_PhoneFailureKinds ==
    (call = "VEPhoneField.clean" /\ value # << >>) =>
        IF IsPhoneText(value) THEN result.kind = "ok"
        ELSE IF Len(value) # 12 THEN result.kind = "WrongLength"
        ELSE result.kind = "InvalidFormat"

C9_Witness ==
    /\ call = "VEPhoneField.clean"
    /\ Len(value) = 12 /\ ~IsPhoneText(value)
    /\ result.kind = "InvalidFormat"

\* The table of codes each selector validates against
ChoicesOf(name) ==
    CASE name = "VERegionChoiceField.clean" -> REGION_CHOICES
      [] name = "VEStateChoiceField.clean" -> STATE_CHOICES
      [] name = "VEMunicipalityChoiceField.clean" -> MUNICIPALITY_CHOICES
      [] name = "VEParishesChoiceField.clean" -> PARISH_CHOICES

\* C10: for each of the four selectors and every non-empty code, validation
\* succeeds iff the code is a key of the selector's table; any other code
\* fails with InvalidChoice.
C10_SelectorsAcceptOnlyKeys ==
    (/\ call \in {"VERegionChoiceField.clean", "VEStateChoiceField.clean",
                  "VEMunicipalityChoiceField.clean",
                  "VEParishesChoiceField.clean"}
     /\ value # << >>) =>
        IF value \in ChoicesOf(call) THEN result = Ok(value)
        ELSE result.kind = "InvalidChoice"

====
